---------------------------- MODULE Spec2Model ----------------------------
(***************************************************************************)
(* A model of NewsFetcher (src/lib/functions/manager/fetch.manager.ts):    *)
(* the date context and its setter, the derivation of the per-day URL, the *)
(* fetch of the feed and the ten public query methods.                     *)
(*                                                                         *)
(* Strings are sequences of one-character strings, so that toString,       *)
(* padStart, toLowerCase and includes are computed rather than assumed.    *)
(* Numbers are integers.  A timestamp string is an opaque token whose      *)
(* instant is given by DateParse.                                          *)
(***************************************************************************)
EXTENDS Integers, Sequences, FiniteSets, TLC

VARIABLES
    baseUrl,    \* this.baseUrl
    date,       \* this.date
    month,      \* this.month
    year,       \* this.year
    lastSet,    \* the latest setDate call: its arguments and what it threw
    ctor,       \* the arguments the constructor was given (history)
    accepted,   \* the context last given by the constructor or a successful setDate (history)
    calls,      \* the promises of the query calls made so far
    net         \* the fetch() requests issued so far, each with its response

vars == <<baseUrl, date, month, year, lastSet, ctor, accepted, calls, net>>

(***************************************************************************)
(* Strings                                                                 *)
(***************************************************************************)
DigitChars == <<"0", "1", "2", "3", "4", "5", "6", "7", "8", "9">>

RECURSIVE NatToString(_)
NatToString(n) ==
    IF n < 10 THEN <<DigitChars[n + 1]>>
    ELSE NatToString(n \div 10) \o <<DigitChars[(n % 10) + 1]>>

\* Number.prototype.toString of an integer
toString(n) == IF n < 0 THEN <<"-">> \o NatToString(-n) ELSE NatToString(n)

RECURSIVE padStart(_, _, _)
padStart(s, targetLength, fill) ==
    IF Len(s) >= targetLength THEN s
    ELSE padStart(<<fill>> \o s, targetLength, fill)

LowerChar(c) ==
    CASE c = "A" -> "a"
      [] c = "B" -> "b"
      [] c = "C" -> "c"
      [] OTHER -> c

toLowerCase(s) == [i \in 1..Len(s) |-> LowerChar(s[i])]

includes(s, t) == \E i \in 0..(Len(s) - Len(t)) : SubSeq(s, i + 1, i + Len(t)) = t

(***************************************************************************)
(* The date context                                                        *)
(***************************************************************************)
monthNames == <<
    <<"J","a","n","u","a","r","y">>,
    <<"F","e","b","r","u","a","r","y">>,
    <<"M","a","r","c","h">>,
    <<"A","p","r","i","l">>,
    <<"M","a","y">>,
    <<"J","u","n","e">>,
    <<"J","u","l","y">>,
    <<"A","u","g","u","s","t">>,
    <<"S","e","p","t","e","m","b","e","r">>,
    <<"O","c","t","o","b","e","r">>,
    <<"N","o","v","e","m","b","e","r">>,
    <<"D","e","c","e","m","b","e","r">> >>

\* what a template literal prints for an array element that does not exist
UndefinedString == <<"u","n","d","e","f","i","n","e","d">>

MinDate == 1
MaxDate == 31
MinMonth == 1
MaxMonth == 12
MinYear == 2000
MaxYear == 2100

\* createUrl with the date and the month printed without padding
createUrlMissingPad(b, d, m, y) ==
    LET monthString == IF m - 1 \in 0..(Len(monthNames) - 1)
                       THEN monthNames[(m - 1) + 1] ELSE UndefinedString
    IN  b \o <<"/">> \o monthString \o <<"-">> \o toString(y) \o <<"/">>
          \o toString(d) \o <<"-">> \o toString(m) \o <<"-">> \o toString(y)
          \o <<".","j","s","o","n">>

createUrlOf(b, d, m, y) ==
    LET monthString == IF m - 1 \in 0..(Len(monthNames) - 1)
                       THEN monthNames[(m - 1) + 1] ELSE UndefinedString
        paddedDate  == padStart(toString(d), 2, "0")
        paddedMonth == padStart(toString(m), 2, "0")
    IN  b \o <<"/">> \o monthString \o <<"-">> \o toString(y) \o <<"/">>
          \o paddedDate \o <<"-">> \o paddedMonth \o <<"-">> \o toString(y)
          \o <<".","j","s","o","n">>

createUrl == createUrlOf(baseUrl, date, month, year)

NoSetDate == [args |-> <<>>, thrown |-> ""]

\* setDate with the lower bound of the date off by one
setDateLooseBound(d, m, y) ==
    /\ IF d < MinDate - 1 \/ d > MaxDate
       THEN /\ lastSet' = [args |-> <<d, m, y>>, thrown |-> "Invalid date"]
            /\ UNCHANGED <<date, month, year, accepted>>
       ELSE IF m < MinMonth \/ m > MaxMonth
       THEN /\ lastSet' = [args |-> <<d, m, y>>, thrown |-> "Invalid month"]
            /\ UNCHANGED <<date, month, year, accepted>>
       ELSE IF y < MinYear \/ y > MaxYear
       THEN /\ lastSet' = [args |-> <<d, m, y>>, thrown |-> "Invalid year"]
            /\ UNCHANGED <<date, month, year, accepted>>
       ELSE /\ lastSet' = [args |-> <<d, m, y>>, thrown |-> ""]
            /\ date' = d
            /\ month' = m
            /\ year' = y
            /\ accepted' = <<d, m, y>>
    /\ UNCHANGED <<baseUrl, ctor, calls, net>>

\* setDate with the year checked first
setDateYearFirst(d, m, y) ==
    /\ IF y < MinYear \/ y > MaxYear
       THEN /\ lastSet' = [args |-> <<d, m, y>>, thrown |-> "Invalid year"]
            /\ UNCHANGED <<date, month, year, accepted>>
       ELSE IF d < MinDate \/ d > MaxDate
       THEN /\ lastSet' = [args |-> <<d, m, y>>, thrown |-> "Invalid date"]
            /\ UNCHANGED <<date, month, year, accepted>>
       ELSE IF m < MinMonth \/ m > MaxMonth
       THEN /\ lastSet' = [args |-> <<d, m, y>>, thrown |-> "Invalid month"]
            /\ UNCHANGED <<date, month, year, accepted>>
       ELSE /\ lastSet' = [args |-> <<d, m, y>>, thrown |-> ""]
            /\ date' = d
            /\ month' = m
            /\ year' = y
            /\ accepted' = <<d, m, y>>
    /\ UNCHANGED <<baseUrl, ctor, calls, net>>

\* setDate with the assignments made as each check passes
setDateStepwise(d, m, y) ==
    /\ IF d < MinDate \/ d > MaxDate
       THEN /\ lastSet' = [args |-> <<d, m, y>>, thrown |-> "Invalid date"]
            /\ UNCHANGED <<date, month, year, accepted>>
       ELSE IF m < MinMonth \/ m > MaxMonth
       THEN /\ lastSet' = [args |-> <<d, m, y>>, thrown |-> "Invalid month"]
            /\ date' = d
            /\ UNCHANGED <<month, year, accepted>>
       ELSE IF y < MinYear \/ y > MaxYear
       THEN /\ lastSet' = [args |-> <<d, m, y>>, thrown |-> "Invalid year"]
            /\ date' = d
            /\ month' = m
            /\ UNCHANGED <<year, accepted>>
       ELSE /\ lastSet' = [args |-> <<d, m, y>>, thrown |-> ""]
            /\ date' = d
            /\ month' = m
            /\ year' = y
            /\ accepted' = <<d, m, y>>
    /\ UNCHANGED <<baseUrl, ctor, calls, net>>

setDate(d, m, y) ==
    /\ IF d < MinDate \/ d > MaxDate
       THEN /\ lastSet' = [args |-> <<d, m, y>>, thrown |-> "Invalid date"]
            /\ UNCHANGED <<date, month, year, accepted>>
       ELSE IF m < MinMonth \/ m > MaxMonth
       THEN /\ lastSet' = [args |-> <<d, m, y>>, thrown |-> "Invalid month"]
            /\ UNCHANGED <<date, month, year, accepted>>
       ELSE IF y < MinYear \/ y > MaxYear
       THEN /\ lastSet' = [args |-> <<d, m, y>>, thrown |-> "Invalid year"]
            /\ UNCHANGED <<date, month, year, accepted>>
       ELSE /\ lastSet' = [args |-> <<d, m, y>>, thrown |-> ""]
            /\ date' = d
            /\ month' = m
            /\ year' = y
            /\ accepted' = <<d, m, y>>
    /\ UNCHANGED <<baseUrl, ctor, calls, net>>

\* the constructor: the fields are stored as given
constructor(b, d, m, y) ==
    /\ baseUrl = b
    /\ date = d
    /\ month = m
    /\ year = y
    /\ lastSet = NoSetDate
    /\ ctor = <<d, m, y>>
    /\ accepted = <<d, m, y>>
    /\ calls = <<>>
    /\ net = <<>>

(***************************************************************************)
(* Inputs of the date specification                                        *)
(***************************************************************************)
BaseUrls == { <<"h","t","t","p","s",":","/","/","n",".","i","o">>,
              <<"h","t","t","p",":","/","/","m">> }

DateArgs  == {MinDate - 1, MinDate, 15, MaxDate, MaxDate + 1}
MonthArgs == {MinMonth - 1, MinMonth, 6, MaxMonth, MaxMonth + 1}
YearArgs  == {MinYear - 1, MinYear, 2023, MaxYear, MaxYear + 1}

\* contexts a caller may construct: within the setter's bounds or not
CtorArgs == { <<12, 11, 2024>>, <<1, 13, 2024>>, <<99, 12, 5>>, <<100, 0, 1999>> }

InitDate == \E b \in BaseUrls, c \in CtorArgs : constructor(b, c[1], c[2], c[3])

SetDateAny == \E d \in DateArgs, m \in MonthArgs, y \in YearArgs : setDate(d, m, y)

NextDate == SetDateAny

SpecDate == InitDate /\ [][NextDate]_vars

(***************************************************************************)
(* News items and the arrays the query methods work on                     *)
(***************************************************************************)
NewsItem(h, t, desc, cats, src, auths, pub) ==
    [hash |-> h,
     item |-> [title |-> t, description |-> desc, categories |-> cats,
               source |-> src,
               authors |-> [i \in 1..Len(auths) |-> [name |-> auths[i]]],
               published |-> pub]]

\* new Date(published).getTime(), in hours of 12 November 2024 (UTC); two of
\* the strings name the same instant
DateParse(pub) ==
    CASE pub = "2024-11-12T08:00:00Z"      -> 8
      [] pub = "2024-11-12T09:00:00+01:00" -> 8
      [] pub = "2024-11-12T12:00:00Z"      -> 12
      [] pub = "2024-11-12T18:00:00Z"      -> 18

Min(a, b) == IF a < b THEN a ELSE b
Max(a, b) == IF a > b THEN a ELSE b

\* Array.prototype.slice(0, end)
slice(s, end) ==
    IF end >= 0 THEN SubSeq(s, 1, Min(end, Len(s)))
    ELSE SubSeq(s, 1, Max(Len(s) + end, 0))

\* Array.prototype.sort with the comparator (a, b) => key(b) - key(a), on
\* <<key, element>> pairs: descending by key, and stable (ECMAScript 2019),
\* so elements with equal keys keep their order
RECURSIVE sortDescending(_)
sortDescending(pairs) ==
    IF pairs = <<>> THEN <<>>
    ELSE LET front == sortDescending(SubSeq(pairs, 1, Len(pairs) - 1))
             x     == pairs[Len(pairs)]
             pos   == Cardinality({i \in 1..Len(front) : front[i][1] >= x[1]})
         IN  SubSeq(front, 1, pos) \o <<x>> \o SubSeq(front, pos + 1, Len(front))

\* Array.from(new Set(values)): the distinct values, in first-seen order
RECURSIVE ArrayFromSet(_, _)
ArrayFromSet(seen, values) ==
    IF values = <<>> THEN seen
    ELSE ArrayFromSet(IF \E i \in 1..Len(seen) : seen[i] = Head(values)
                      THEN seen ELSE Append(seen, Head(values)),
                      Tail(values))

\* a Map<string, number> as its entries <<count, key>> in insertion order;
\* map.set(key, (map.get(key) || 0) + 1) for each key in turn
RECURSIVE CountInto(_, _)
CountInto(entries, keys) ==
    IF keys = <<>> THEN entries
    ELSE LET k == Head(keys)
             at == {i \in 1..Len(entries) : entries[i][2] = k}
         IN  CountInto(IF at = {} THEN Append(entries, <<1, k>>)
                       ELSE [i \in 1..Len(entries) |->
                               IF i \in at THEN <<entries[i][1] + 1, k>>
                               ELSE entries[i]],
                       Tail(keys))

RECURSIVE Flatten(_)
Flatten(ss) == IF ss = <<>> THEN <<>> ELSE Head(ss) \o Flatten(Tail(ss))

(***************************************************************************)
(* The transforms of the ten public query methods, on a fetched array      *)
(***************************************************************************)
DefaultLatestLimit == 10
DefaultTopLimit == 5

\* a query call: the method and its arguments (the fields a method does not
\* take are left at their defaults)
Query(op, limitGiven, limit, text, list, from, to) ==
    [op |-> op, limitGiven |-> limitGiven, limit |-> limit, text |-> text,
     list |-> list, from |-> from, to |-> to]

ReturnAllSources(data) ==
    ArrayFromSet(<<>>, [i \in 1..Len(data) |-> data[i].item.source])

ReturnAllTopics(data) ==
    LET categoryFrequency ==
            CountInto(<<>>, Flatten([i \in 1..Len(data) |-> data[i].item.categories]))
        sorted == sortDescending(categoryFrequency)
    IN  [i \in 1..Len(sorted) |-> sorted[i][2]]

ReturnNewsWithATopic(data, category) ==
    LET Test(newsItem) ==
            \E c \in 1..Len(newsItem.item.categories) :
                toLowerCase(newsItem.item.categories[c]) = toLowerCase(category)
    IN  SelectSeq(data, Test)

ReturnNewsFromSource(data, source) ==
    LET Test(newsItem) == toLowerCase(newsItem.item.source) = toLowerCase(source)
    IN  SelectSeq(data, Test)

SearchNewsByKeyword(data, keyword) ==
    LET searchTerm == toLowerCase(keyword)
        Test(newsItem) ==
            \/ includes(toLowerCase(newsItem.item.title), searchTerm)
            \/ includes(toLowerCase(newsItem.item.description), searchTerm)
    IN  SelectSeq(data, Test)

ReturnNewsByAuthor(data, authorName) ==
    LET searchName == toLowerCase(authorName)
        Test(newsItem) ==
            \E a \in 1..Len(newsItem.item.authors) :
                includes(toLowerCase(newsItem.item.authors[a].name), searchName)
    IN  SelectSeq(data, Test)

\* ReturnLatestNews with the array sorted ascending
ReturnLatestNewsAscending(data, limitGiven, limit) ==
    LET lim    == IF limitGiven THEN limit ELSE DefaultLatestLimit
        sorted == sortDescending([i \in 1..Len(data) |->
                      <<0 - DateParse(data[i].item.published), data[i]>>])
    IN  slice([i \in 1..Len(sorted) |-> sorted[i][2]], lim)

ReturnLatestNews(data, limitGiven, limit) ==
    LET lim    == IF limitGiven THEN limit ELSE DefaultLatestLimit
        sorted == sortDescending([i \in 1..Len(data) |->
                      <<DateParse(data[i].item.published), data[i]>>])
    IN  slice([i \in 1..Len(sorted) |-> sorted[i][2]], lim)

ReturnNewsInDateRange(data, startDate, endDate) ==
    LET Test(newsItem) ==
            LET publishDate == DateParse(newsItem.item.published)
            IN  publishDate >= startDate /\ publishDate <= endDate
    IN  SelectSeq(data, Test)

ReturnNewsWithMultipleCategories(data, categories) ==
    LET searchCategories == [i \in 1..Len(categories) |-> toLowerCase(categories[i])]
        Test(newsItem) ==
            \A s \in 1..Len(searchCategories) :
                \E c \in 1..Len(newsItem.item.categories) :
                    toLowerCase(newsItem.item.categories[c]) = searchCategories[s]
    IN  SelectSeq(data, Test)

\* ReturnTopSourcesByArticleCount with the slice taken before the sort
ReturnTopSourcesSliceFirst(data, limitGiven, limit) ==
    LET lim         == IF limitGiven THEN limit ELSE DefaultTopLimit
        sourceCount == CountInto(<<>>, [i \in 1..Len(data) |-> data[i].item.source])
        sorted      == sortDescending(slice(sourceCount, lim))
    IN  [i \in 1..Len(sorted) |-> [source |-> sorted[i][2], count |-> sorted[i][1]]]

ReturnTopSourcesByArticleCount(data, limitGiven, limit) ==
    LET lim         == IF limitGiven THEN limit ELSE DefaultTopLimit
        sourceCount == CountInto(<<>>, [i \in 1..Len(data) |-> data[i].item.source])
        sorted      == slice(sortDescending(sourceCount), lim)
    IN  [i \in 1..Len(sorted) |-> [source |-> sorted[i][2], count |-> sorted[i][1]]]

\* what the try block of a method returns for the array fetchNewsData gave
Transform(q, data) ==
    CASE q.op = "ReturnAllSources"     -> ReturnAllSources(data)
      [] q.op = "ReturnAllTopics"      -> ReturnAllTopics(data)
      [] q.op = "ReturnNewsWithATopic" -> ReturnNewsWithATopic(data, q.text)
      [] q.op = "ReturnNewsFromSource" -> ReturnNewsFromSource(data, q.text)
      [] q.op = "SearchNewsByKeyword"  -> SearchNewsByKeyword(data, q.text)
      [] q.op = "ReturnNewsByAuthor"   -> ReturnNewsByAuthor(data, q.text)
      [] q.op = "ReturnLatestNews"     -> ReturnLatestNews(data, q.limitGiven, q.limit)
      [] q.op = "ReturnNewsInDateRange" -> ReturnNewsInDateRange(data, q.from, q.to)
      [] q.op = "ReturnNewsWithMultipleCategories"
                                       -> ReturnNewsWithMultipleCategories(data, q.list)
      [] q.op = "ReturnTopSourcesByArticleCount"
                                       -> ReturnTopSourcesByArticleCount(data, q.limitGiven, q.limit)

(***************************************************************************)
(* The fetch                                                               *)
(***************************************************************************)
\* a response to fetch(url): the promise rejects (a network error), or it
\* resolves to a response with an ok flag and a body that response.json()
\* cannot parse ("malformed"), parses to a value that is no array ("object")
\* or parses to an array of items
Response(rejects, ok, json, items) ==
    [rejects |-> rejects, ok |-> ok, json |-> json, items |-> items]

NoResponse == Response(FALSE, FALSE, "none", <<>>)

\* fetchNewsData without the response.ok check
fetchNewsDataNoOkCheck(resp) ==
    IF resp.rejects \/ resp.json = "malformed"
    THEN [isArray |-> TRUE, items |-> <<>>]
    ELSE [isArray |-> resp.json = "array", items |-> resp.items]

\* fetchNewsData once the fetch has settled: what it resolves to.  Every
\* throw inside its try block is caught and turned into the empty array.
fetchNewsData(resp) ==
    IF resp.rejects \/ ~resp.ok \/ resp.json = "malformed"
    THEN [isArray |-> TRUE, items |-> <<>>]
    ELSE [isArray |-> resp.json = "array", items |-> resp.items]

\* a public method from the arrival of the response on: a value that is no
\* array makes the transform throw a TypeError, which the method's own catch
\* turns into the empty array
Settle(q, resp) ==
    LET data == fetchNewsData(resp)
    IN  IF ~data.isArray THEN [state |-> "fulfilled", value |-> <<>>]
        ELSE [state |-> "fulfilled", value |-> Transform(q, data.items)]

\* Invoke with concurrent requests for one URL shared: no second fetch is
\* issued while one for the same URL is outstanding
InvokeDeduplicated(q) ==
    LET same == {f \in 1..Len(net) : net[f].url = createUrl /\ ~net[f].arrived}
    IN  /\ net' = IF same = {} THEN Append(net, [url |-> createUrl, arrived |-> FALSE,
                                                 resp |-> NoResponse])
                  ELSE net
        /\ calls' = Append(calls, [query |-> q,
                                   fetch |-> IF same = {} THEN Len(net) + 1
                                             ELSE CHOOSE f \in same : TRUE,
                                   ctx |-> accepted, state |-> "pending", value |-> <<>>])
        /\ UNCHANGED <<baseUrl, date, month, year, lastSet, ctor, accepted>>

\* the synchronous part of a public method: fetchNewsData is entered, the
\* URL is built and fetch(url) is called; the method then waits
Invoke(q) ==
    /\ net' = Append(net, [url |-> createUrl, arrived |-> FALSE, resp |-> NoResponse])
    /\ calls' = Append(calls, [query |-> q, fetch |-> Len(net) + 1, ctx |-> accepted,
                               state |-> "pending", value |-> <<>>])
    /\ UNCHANGED <<baseUrl, date, month, year, lastSet, ctor, accepted>>

Pending == {i \in 1..Len(calls) : calls[i].state = "pending"}

\* Respond with a failed fetch moving the context to the day before
RespondFallingBack(i, resp) ==
    /\ calls[i].state = "pending"
    /\ net' = [net EXCEPT ![calls[i].fetch] =
                  [url |-> @.url, arrived |-> TRUE, resp |-> resp]]
    /\ calls' = [calls EXCEPT ![i].state = Settle(calls[i].query, resp).state,
                              ![i].value = Settle(calls[i].query, resp).value]
    /\ date' = IF resp.rejects \/ ~resp.ok THEN date - 1 ELSE date
    /\ UNCHANGED <<baseUrl, month, year, lastSet, ctor, accepted>>

\* Respond with the URL built only when the method resumes
RespondUrlBuiltLate(i, resp) ==
    /\ calls[i].state = "pending"
    /\ net' = [net EXCEPT ![calls[i].fetch] =
                  [url |-> createUrl, arrived |-> TRUE, resp |-> resp]]
    /\ calls' = [calls EXCEPT ![i].state = Settle(calls[i].query, resp).state,
                              ![i].value = Settle(calls[i].query, resp).value]
    /\ UNCHANGED <<baseUrl, date, month, year, lastSet, ctor, accepted>>

\* the response to call i's fetch arrives and the method runs to its end: the
\* awaits it passes on the way (response.json(), the promise of fetchNewsData)
\* read and write nothing but the call's own values, so the rest of the
\* method is one step
Respond(i, resp) ==
    /\ calls[i].state = "pending"
    /\ net' = [net EXCEPT ![calls[i].fetch] =
                  [url |-> @.url, arrived |-> TRUE, resp |-> resp]]
    /\ calls' = [calls EXCEPT ![i].state = Settle(calls[i].query, resp).state,
                              ![i].value = Settle(calls[i].query, resp).value]
    /\ UNCHANGED <<baseUrl, date, month, year, lastSet, ctor, accepted>>

(***************************************************************************)
(* Spec: one fetcher, setDate calls and query calls of all ten methods,    *)
(* the responses arriving in any order and at any time                     *)
(***************************************************************************)
MaxCalls == 1

ItemAb == NewsItem("h1", <<"A","b">>, <<"c","A">>, << <<"A","b">>, <<"c">> >>,
                   <<"A","b">>, << <<"B","c">> >>, "2024-11-12T12:00:00Z")
Itemab == NewsItem("h2", <<"c">>, <<"a","b","c">>, << <<"a","b">> >>,
                   <<"a","b">>, << <<"a">>, <<"C","b">> >>, "2024-11-12T18:00:00Z")

NoText == <<>>
NoList == <<>>

Queries == {
    Query("ReturnAllSources", FALSE, 0, NoText, NoList, 0, 0),
    Query("ReturnAllTopics", FALSE, 0, NoText, NoList, 0, 0),
    Query("ReturnNewsWithATopic", FALSE, 0, <<"A","B">>, NoList, 0, 0),
    Query("ReturnNewsFromSource", FALSE, 0, <<"A","B">>, NoList, 0, 0),
    Query("SearchNewsByKeyword", FALSE, 0, <<"B","C">>, NoList, 0, 0),
    Query("ReturnNewsByAuthor", FALSE, 0, <<"c">>, NoList, 0, 0),
    Query("ReturnLatestNews", TRUE, 1, NoText, NoList, 0, 0),
    Query("ReturnLatestNews", FALSE, 0, NoText, NoList, 0, 0),
    Query("ReturnNewsInDateRange", FALSE, 0, NoText, NoList, 8, 12),
    Query("ReturnNewsWithMultipleCategories", FALSE, 0, NoText,
          << <<"a","b">>, <<"C">> >>, 0, 0),
    Query("ReturnTopSourcesByArticleCount", FALSE, 0, NoText, NoList, 0, 0) }

Failures == {
    Response(TRUE, FALSE, "none", <<>>),                \* the fetch rejects
    Response(FALSE, FALSE, "array", <<ItemAb, Itemab>>),  \* HTTP 500 with a JSON body
    Response(FALSE, FALSE, "malformed", <<>>),          \* HTTP 404 with an HTML body
    Response(FALSE, TRUE, "malformed", <<>>) }          \* HTTP 200, the body is no JSON

Successes == {
    Response(FALSE, TRUE, "object", <<>>),              \* HTTP 200, the JSON is no array
    Response(FALSE, TRUE, "array", <<>>),
    Response(FALSE, TRUE, "array", <<ItemAb, Itemab>>) }

Responses == Failures \cup Successes

SpecCtorArgs == { <<15, 6, 2023>>, <<32, 13, 1999>> }
SpecDateArgs  == {MinDate - 1, MaxDate}
SpecMonthArgs == {MaxMonth, MaxMonth + 1}
SpecYearArgs  == {MinYear - 1, MaxYear}

SpecBaseUrls == { <<"h","t","t","p","s",":","/","/","n",".","i","o">> }

Init == \E b \in SpecBaseUrls, c \in SpecCtorArgs : constructor(b, c[1], c[2], c[3])

SetDate ==
    \E d \in SpecDateArgs, m \in SpecMonthArgs, y \in SpecYearArgs : setDate(d, m, y)

InvokeQuery == Len(calls) < MaxCalls /\ \E q \in Queries : Invoke(q)

ResponseArrives == \E i \in Pending : \E resp \in Responses : Respond(i, resp)

Next == SetDate \/ InvokeQuery \/ ResponseArrives

Spec == Init /\ [][Next]_vars

(***************************************************************************)
(* SpecConc: several query calls in flight at once                         *)
(***************************************************************************)
MaxConc == 2

ConcQueries == {
    Query("ReturnAllSources", FALSE, 0, NoText, NoList, 0, 0),
    Query("ReturnNewsWithATopic", FALSE, 0, <<"A","B">>, NoList, 0, 0),
    Query("ReturnLatestNews", TRUE, 1, NoText, NoList, 0, 0) }

ConcResponses == {
    Response(TRUE, FALSE, "none", <<>>),
    Response(FALSE, TRUE, "array", <<Itemab>>),
    Response(FALSE, TRUE, "array", <<ItemAb, Itemab>>) }

ConcSetDateArgs == { <<31, 12, 2100>>, <<15, 13, 2023>> }

InitConc == \E b \in SpecBaseUrls : constructor(b, 15, 6, 2023)

SetDateConc == \E a \in ConcSetDateArgs : setDate(a[1], a[2], a[3])

InvokeConc == Len(calls) < MaxConc /\ \E q \in ConcQueries : Invoke(q)

ResponseArrivesConc ==
    \E i \in Pending : \E resp \in ConcResponses : Respond(i, resp)

NextConc == SetDateConc \/ InvokeConc \/ ResponseArrivesConc

SpecConc == InitConc /\ [][NextConc]_vars

(***************************************************************************)
(* SpecLatest and SpecTop: one call of ReturnLatestNews, and one of        *)
(* ReturnTopSourcesByArticleCount, on every array within the bounds        *)
(***************************************************************************)
MaxLimit == 3
MaxLatestItems == 3
MaxTopItems == 8

SeqsUpTo(S, n) == UNION {[1..k -> S] : k \in 0..n}

Published(h, pub) ==
    NewsItem(h, <<"c">>, <<"c">>, << <<"c">> >>, <<"C">>, << <<"c">> >>, pub)

LatestItems == {
    Published("h1", "2024-11-12T08:00:00Z"),
    Published("h2", "2024-11-12T09:00:00+01:00"),
    Published("h3", "2024-11-12T12:00:00Z"),
    Published("h4", "2024-11-12T18:00:00Z") }

From(src) ==
    NewsItem("h", <<"c">>, <<"c">>, << <<"c">> >>, src, << <<"c">> >>,
             "2024-11-12T08:00:00Z")

TopItems == { From(<<"A">>), From(<<"B">>), From(<<"C">>) }

InitPure == \E b \in SpecBaseUrls : constructor(b, 12, 11, 2024)

InvokeLatest ==
    /\ calls = <<>>
    /\ \/ \E limit \in 0..MaxLimit :
             Invoke(Query("ReturnLatestNews", TRUE, limit, NoText, NoList, 0, 0))
       \/ Invoke(Query("ReturnLatestNews", FALSE, 0, NoText, NoList, 0, 0))

ResponseArrivesLatest ==
    \E i \in Pending : \E data \in SeqsUpTo(LatestItems, MaxLatestItems) :
        Respond(i, Response(FALSE, TRUE, "array", data))

NextLatest == InvokeLatest \/ ResponseArrivesLatest

SpecLatest == InitPure /\ [][NextLatest]_vars

InvokeTop ==
    /\ calls = <<>>
    /\ \/ \E limit \in 0..MaxLimit :
             Invoke(Query("ReturnTopSourcesByArticleCount", TRUE, limit,
                          NoText, NoList, 0, 0))
       \/ Invoke(Query("ReturnTopSourcesByArticleCount", FALSE, 0,
                       NoText, NoList, 0, 0))

ResponseArrivesTop ==
    \E i \in Pending : \E data \in SeqsUpTo(TopItems, MaxTopItems) :
        Respond(i, Response(FALSE, TRUE, "array", data))

NextTop == InvokeTop \/ ResponseArrivesTop

SpecTop == InitPure /\ [][NextTop]_vars

(***************************************************************************)
(* Properties of the date context                                          *)
(***************************************************************************)
InBounds(d, m, y) == d \in 1..31 /\ m \in 1..12 /\ y \in 2000..2100

EnglishMonthName(m) ==
    CASE m = 1  -> <<"J","a","n","u","a","r","y">>
      [] m = 2  -> <<"F","e","b","r","u","a","r","y">>
      [] m = 3  -> <<"M","a","r","c","h">>
      [] m = 4  -> <<"A","p","r","i","l">>
      [] m = 5  -> <<"M","a","y">>
      [] m = 6  -> <<"J","u","n","e">>
      [] m = 7  -> <<"J","u","l","y">>
      [] m = 8  -> <<"A","u","g","u","s","t">>
      [] m = 9  -> <<"S","e","p","t","e","m","b","e","r">>
      [] m = 10 -> <<"O","c","t","o","b","e","r">>
      [] m = 11 -> <<"N","o","v","e","m","b","e","r">>
      [] m = 12 -> <<"D","e","c","e","m","b","e","r">>
      [] OTHER  -> <<>>

TwoDigits(n) == <<DigitChars[((n \div 10) % 10) + 1], DigitChars[(n % 10) + 1]>>

\* {baseUrl}/{MonthName}-{year}/{DD}-{MM}-{year}.json
DocumentedUrl(b, d, m, y) ==
    b \o <<"/">> \o EnglishMonthName(m) \o <<"-">> \o toString(y) \o <<"/">>
      \o TwoDigits(d) \o <<"-">> \o TwoDigits(m) \o <<"-">> \o toString(y)
      \o <<".","j","s","o","n">>

June15Path == <<"/","J","u","n","e","-","2","0","2","3","/",
                "1","5","-","0","6","-","2","0","2","3",".","j","s","o","n">>

\* C1: a setDate call with the date outside 1..31, the month outside 1..12 or
\* the year outside 2000..2100 throws and leaves date, month and year as they
\* were, also when an earlier argument was valid and a later one was not.
C1_RejectedSetDateKeepsContext ==
    [][\A a \in {lastSet'.args} \ {<<>>} :
          (setDate(a[1], a[2], a[3]) /\ ~InBounds(a[1], a[2], a[3]))
             => /\ lastSet'.thrown # ""
                /\ date' = date /\ month' = month /\ year' = year]_vars

\* a call whose date was valid and differs from the stored one was rejected
\* for its year, and the stored date is not the argument
C1_Witness ==
    /\ lastSet.args # <<>>
    /\ lastSet.thrown = "Invalid year"
    /\ lastSet.args[1] \in 1..31 /\ lastSet.args[2] \in 1..12
    /\ date # lastSet.args[1] /\ month # lastSet.args[2]

\* C2 as stated: in every date context createUrl is
\* {baseUrl}/{MonthName}-{year}/{DD}-{MM}-{year}.json with the English month
\* name at index month-1 and two-digit zero-padded DD and MM.
C2_Original == createUrl = DocumentedUrl(baseUrl, date, month, year)

\* C2 as amended: the same, for a context whose month is in 1..12 and whose
\* date is in 0..99 (every context setDate accepts is one); and after
\* setDate(15, 6, 2023) the URL is {baseUrl}/June-2023/15-06-2023.json.
C2_UrlFormat ==
    /\ (month \in 1..12 /\ date \in 0..99)
          => createUrl = DocumentedUrl(baseUrl, date, month, year)
    /\ (lastSet.args = <<15, 6, 2023>> /\ lastSet.thrown = "")
          => createUrl = baseUrl \o June15Path

C2_Witness ==
    /\ lastSet.args = <<15, 6, 2023>> /\ lastSet.thrown = ""
    /\ createUrl = baseUrl \o June15Path

FirstViolation(d, m, y) ==
    IF d \notin 1..31 THEN "Invalid date"
    ELSE IF m \notin 1..12 THEN "Invalid month"
    ELSE IF y \notin 2000..2100 THEN "Invalid year"
    ELSE ""

\* C8: setDate checks date, month, year in that order and throws for the
\* first violated one; with all three in range it succeeds and stores the
\* three arguments together.
C8_FirstViolationNamed ==
    [][\A a \in {lastSet'.args} \ {<<>>} :
          setDate(a[1], a[2], a[3])
             => /\ lastSet'.thrown = FirstViolation(a[1], a[2], a[3])
                /\ InBounds(a[1], a[2], a[3])
                      => (date' = a[1] /\ month' = a[2] /\ year' = a[3])]_vars

\* a call with the month and the year both out of range threw for the month
C8_Witness ==
    /\ lastSet.args # <<>>
    /\ lastSet.args[1] \in 1..31
    /\ lastSet.args[2] \notin 1..12
    /\ lastSet.args[3] \notin 2000..2100
    /\ lastSet.thrown = "Invalid month"

(***************************************************************************)
(* Properties of the query methods                                         *)
(***************************************************************************)
Settled == {i \in 1..Len(calls) : calls[i].state # "pending"}

ResponseOf(i) == net[calls[i].fetch].resp

\* a non-2xx status, a network error, or a body that is not valid JSON
FetchFailed(resp) == resp.rejects \/ ~resp.ok \/ resp.json = "malformed"

\* C3: when the fetch behind a query fails, the query completes with the
\* empty sequence; no query call ever rejects.
C3_FailedFetchGivesEmpty ==
    /\ \A i \in 1..Len(calls) : calls[i].state \in {"pending", "fulfilled"}
    /\ \A i \in Settled :
          FetchFailed(ResponseOf(i))
             => calls[i].state = "fulfilled" /\ calls[i].value = <<>>

\* a call whose fetch was answered HTTP 500 with a JSON array of two items
\* has completed with the empty sequence
C3_Witness ==
    \E i \in Settled :
        /\ ~ResponseOf(i).ok /\ ResponseOf(i).json = "array"
        /\ Len(ResponseOf(i).items) = 2
        /\ calls[i].query.op = "ReturnAllSources"
        /\ calls[i].state = "fulfilled" /\ calls[i].value = <<>>

\* C4: a step of a query call (its invocation, or its completion after a
\* successful or a failed fetch) leaves date, month, year and baseUrl as
\* they were; date, month or year change only in a setDate call that
\* succeeds, and then to its arguments.
C4_QueriesKeepContext ==
    [][/\ (calls' # calls \/ net' # net)
            => (baseUrl' = baseUrl /\ date' = date /\ month' = month /\ year' = year)
       /\ (<<date, month, year>>' # <<date, month, year>>)
            => /\ lastSet'.thrown = ""
               /\ lastSet'.args = <<date', month', year'>>
               /\ calls' = calls /\ net' = net]_vars

\* a call has completed after a failed fetch, and the context is the one it
\* was invoked in
C4_Witness ==
    \E i \in Settled :
        /\ FetchFailed(ResponseOf(i))
        /\ calls[i].ctx = <<date, month, year>>
        /\ lastSet.thrown = "" /\ lastSet.args = <<date, month, year>>

\* C5: every query call issues exactly one fetch of its own: N calls have
\* issued N fetches, no two calls share one, a call is pending exactly while
\* its fetch is unanswered, and a completed call's result is the one its
\* method computes from the response to its own fetch.
C5_OneFetchPerCall ==
    /\ Len(net) = Len(calls)
    /\ \A i \in 1..Len(calls) : calls[i].fetch \in 1..Len(net)
    /\ \A i, j \in 1..Len(calls) : i # j => calls[i].fetch # calls[j].fetch
    /\ \A i \in 1..Len(calls) :
          /\ net[calls[i].fetch].arrived <=> i \in Settled
          /\ i \in Settled => calls[i].value = Settle(calls[i].query, ResponseOf(i)).value

\* two identical calls for the same URL were in flight together, and each
\* completed with the result of its own response
C5_Witness ==
    /\ Len(calls) = 2 /\ Len(net) = 2
    /\ calls[1].query = calls[2].query
    /\ net[1].url = net[2].url
    /\ Settled = {1, 2}
    /\ ResponseOf(1).rejects /\ ~ResponseOf(2).rejects
    /\ calls[1].value = <<>> /\ calls[2].value # <<>>

\* the instant of an item
Instant(newsItem) == DateParse(newsItem.item.published)

\* value holds Len(value) of the elements of data, each at most once, and
\* Leaves(j, k) holds of every element j left out and every element k kept
IsSelection(value, data, Leaves(_, _)) ==
    \E f \in [1..Len(value) -> 1..Len(data)] :
        /\ \A k, l \in 1..Len(value) : k # l => f[k] # f[l]
        /\ \A k \in 1..Len(value) : value[k] = data[f[k]]
        /\ \A j \in (1..Len(data)) \ {f[k] : k \in 1..Len(value)} :
              \A k \in 1..Len(value) : Leaves(data[j], value[k])

T1Item == Published("h1", "2024-11-12T08:00:00Z")
T2Item == Published("h3", "2024-11-12T12:00:00Z")
T3Item == Published("h4", "2024-11-12T18:00:00Z")

\* C6: ReturnLatestNews(limit) returns min(limit, N) of the N fetched items,
\* most recent first, none of the items left out being more recent than one
\* returned; on items published at T1 < T2 < T3, ReturnLatestNews(2) is
\* [T3, T2].
C6_LatestNewsSortedAndCut ==
    \A i \in Settled :
        (calls[i].query.op = "ReturnLatestNews" /\ ResponseOf(i).json = "array"
            /\ ResponseOf(i).ok /\ ~ResponseOf(i).rejects)
        => LET data  == ResponseOf(i).items
               limit == IF calls[i].query.limitGiven THEN calls[i].query.limit ELSE 10
               value == calls[i].value
               NotMoreRecent(left, kept) == Instant(left) <= Instant(kept)
           IN  /\ Len(value) = Min(limit, Len(data))
               /\ \A k, l \in 1..Len(value) :
                     k < l => Instant(value[k]) >= Instant(value[l])
               /\ IsSelection(value, data, NotMoreRecent)
               /\ (limit = 2 /\ \E f \in [1..3 -> {T1Item, T2Item, T3Item}] :
                                    data = f /\ {f[1], f[2], f[3]} = {T1Item, T2Item, T3Item})
                     => value = <<T3Item, T2Item>>

\* ReturnLatestNews(2) on [T1, T2, T3] has returned [T3, T2]
C6_Witness ==
    \E i \in Settled :
        /\ calls[i].query.op = "ReturnLatestNews"
        /\ calls[i].query.limitGiven /\ calls[i].query.limit = 2
        /\ ResponseOf(i).items = <<T1Item, T2Item, T3Item>>
        /\ calls[i].value = <<T3Item, T2Item>>

\* the number of fetched items from a source, and where the source first occurs
ArticleCount(data, src) == Cardinality({j \in 1..Len(data) : data[j].item.source = src})
FirstSeen(data, src) ==
    CHOOSE j \in 1..Len(data) :
        /\ data[j].item.source = src
        /\ \A h \in 1..(j - 1) : data[h].item.source # src

\* source a comes before source b in the ranking: more articles, or as many
\* and first encountered earlier
RanksBefore(data, a, b) ==
    \/ ArticleCount(data, a) > ArticleCount(data, b)
    \/ /\ ArticleCount(data, a) = ArticleCount(data, b)
       /\ FirstSeen(data, a) < FirstSeen(data, b)

\* C7: ReturnTopSourcesByArticleCount(limit) returns {source, count} pairs,
\* count being the number of fetched items of the source, ordered by
\* non-increasing count, sources with equal counts in the order they were
\* first encountered, and cut to the first `limit` pairs of that ranking; for
\* sources A(3), B(5) and limit 1 the result is [{source: B, count: 5}].
C7_TopSourcesRankedAndCut ==
    \A i \in Settled :
        (calls[i].query.op = "ReturnTopSourcesByArticleCount"
            /\ ResponseOf(i).json = "array" /\ ResponseOf(i).ok /\ ~ResponseOf(i).rejects)
        => LET data    == ResponseOf(i).items
               limit   == IF calls[i].query.limitGiven THEN calls[i].query.limit ELSE 5
               value   == calls[i].value
               sources == {data[j].item.source : j \in 1..Len(data)}
               kept    == {value[k].source : k \in 1..Len(value)}
           IN  /\ Len(value) = Min(limit, Cardinality(sources))
               /\ kept \subseteq sources
               /\ \A k \in 1..Len(value) :
                     value[k].count = ArticleCount(data, value[k].source)
               /\ \A k, l \in 1..Len(value) :
                     k < l => RanksBefore(data, value[k].source, value[l].source)
               /\ \A s \in sources \ kept : \A k \in 1..Len(value) :
                     RanksBefore(data, value[k].source, s)
               /\ (limit = 1 /\ ArticleCount(data, <<"A">>) = 3
                             /\ ArticleCount(data, <<"B">>) = 5 /\ Len(data) = 8)
                     => value = <<[source |-> <<"B">>, count |-> 5]>>

\* ReturnTopSourcesByArticleCount(1) on three items of A followed by five of
\* B has returned [{source: B, count: 5}]
C7_Witness ==
    \E i \in Settled :
        /\ calls[i].query.op = "ReturnTopSourcesByArticleCount"
        /\ calls[i].query.limitGiven /\ calls[i].query.limit = 1
        /\ Len(ResponseOf(i).items) = 8
        /\ \A j \in 1..3 : ResponseOf(i).items[j].item.source = <<"A">>
        /\ \A j \in 4..8 : ResponseOf(i).items[j].item.source = <<"B">>
        /\ calls[i].value = <<[source |-> <<"B">>, count |-> 5]>>

\* C9: the URL a query call fetches is the URL of the context in force when
\* the call was invoked, as the constructor or the latest successful setDate
\* gave it, whatever setDate calls run before the response arrives: never
\* the URL of a later context or of a mix of two contexts.
C9_UrlOfInvocationContext ==
    \A i \in 1..Len(calls) :
        net[calls[i].fetch].url =
            createUrlOf(baseUrl, calls[i].ctx[1], calls[i].ctx[2], calls[i].ctx[3])

\* a setDate call succeeded while a query was waiting for its response, and
\* the query's fetch is for the URL of the old context
C9_Witness ==
    \E i \in Pending :
        /\ calls[i].ctx # <<date, month, year>>
        /\ lastSet.thrown = ""
        /\ net[calls[i].fetch].url # createUrl
        /\ net[calls[i].fetch].url =
              createUrlOf(baseUrl, calls[i].ctx[1], calls[i].ctx[2], calls[i].ctx[3])

\* C10: a fetcher constructed within the bounds stays within them; one
\* constructed outside them keeps the constructor's context until a setDate
\* call succeeds, and is within the bounds from then on.
C10_ContextBounds ==
    /\ InBounds(ctor[1], ctor[2], ctor[3]) => InBounds(date, month, year)
    /\ ~InBounds(ctor[1], ctor[2], ctor[3])
          => IF accepted = ctor THEN <<date, month, year>> = ctor
             ELSE InBounds(date, month, year)

\* constructed out of range, the fetcher has rejected a setDate call, a query
\* has completed, and the context is still the constructor's
C10_Witness ==
    /\ ~InBounds(ctor[1], ctor[2], ctor[3])
    /\ lastSet.thrown # ""
    /\ Settled # {}
    /\ <<date, month, year>> = ctor

=============================================================================
